---- MODULE Spec2Model ----
(***************************************************************************)
(* The Firestore security rules of the salon booking application           *)
(* (firestore.rules, kept as src/unnamed/part_000 lines 1-219), modelled   *)
(* as a state machine: the state is the document database the rules read   *)
(* and guard, and every step is one request (get, list, create, update,    *)
(* delete) that the rules either allow or deny.                            *)
(*                                                                         *)
(* With them, the two pages whose state the specification speaks of: the   *)
(* booking form (src/unnamed/part_000 lines 220-563) and the clients page  *)
(* of the dashboard (src/src/app/dashboard/clients/page.tsx).              *)
(***************************************************************************)
EXTENDS Naturals, FiniteSets, Sequences, TLC

VARIABLES
  \* the rules: the database, and the request just decided
  db, last,
  \* BookingForm: the provider parameter of the URL, the position of the
  \* mount effect and of fetchProviderData, and the component's state
  providerParam, bpc, isProviderSubmission, provider, salon, selectedSlot,
  isSubmitting, alert,
  \* ClientsPage: useAuth's user, the component's state, the effect waiting
  \* to run, the getBookingRequests calls in flight, the bookingRequests of
  \* the last run that got them, and how the last completed run ended
  user, clients, loading, error, effectPending, inflight, fetched, lastRun

rulesVars == <<db, last>>

bookingVars ==
  <<providerParam, bpc, isProviderSubmission, provider, salon, selectedSlot,
    isSubmitting, alert>>

clientsVars ==
  <<user, clients, loading, error, effectPending, inflight, fetched, lastRun>>

vars == <<rulesVars, bookingVars, clientsVars>>

----------------------------------------------------------------------------
(* Values *)

\* null, as a field value or as request.auth
Null == "null"

\* the result of reading a field of a null resource (resource.data.x when the
\* document does not exist) or a field a query does not constrain: the rules
\* engine raises an evaluation error and the clause does not grant
Err == "error"

\* user identities (request.auth.uid); a salon's document id is its owner's uid
Uids == {"u1", "u2"}

\* the two addresses of isPlatformAdmin, and one other address
AdminEmail1 == "ameet@gofisherman.com"
AdminEmail2 == "ameetk96@gmail.com"
OtherEmail == "other@example.com"
Emails == {AdminEmail1, AdminEmail2, OtherEmail}

\* request.auth == null
NoAuth == [uid |-> Null, email |-> Null]

\* request.auth: absent, or an identity and an email
Auths == {NoAuth} \cup [uid : Uids, email : Emails]

\* document ids of the collections whose ids are not user ids
DocIds == {"d1"}

\* at most MaxLive documents exist at once outside teamMembers (the rules
\* read no document but the target and the caller's teamMembers record)
MaxLive == 1

\* the collections the rule set names, and one it does not name
Collections == {"salons", "providers", "services", "bookingRequests",
                "teamMembers", "invitations", "loyaltyPrograms",
                "customerPasses", "visitRecords", "clients",
                "shiftChangeRequests", "sessionTracking", "sessions",
                "auditLogs"}

\* salons/{salonId} and teamMembers/{memberId} are keyed by user identity
IdsOf(c) == IF c \in {"salons", "teamMembers"} THEN Uids ELSE DocIds

\* the fields of a document the rules read
Field(v) == [salonId |-> v, userId |-> v, slug |-> v, providerId |-> v]

\* resource == null: every resource.data.x is an evaluation error
NoDoc == Field(Err)

SalonIdValues == Uids \cup {Null}

\* the document bodies a client can write to collection c
DataOf(c) ==
  CASE c = "teamMembers" ->
         {[Field(Null) EXCEPT !.salonId = s, !.userId = u] :
            s \in SalonIdValues, u \in Uids}
    [] c = "salons" ->
         {[Field(Null) EXCEPT !.slug = g] : g \in {Null, "slug"}}
    [] c = "shiftChangeRequests" ->
         {[Field(Null) EXCEPT !.salonId = s, !.providerId = p] :
            s \in SalonIdValues, p \in Uids}
    [] OTHER ->
         {[Field(Null) EXCEPT !.salonId = s] : s \in SalonIdValues}

\* what a list query fixes of the documents it can return: a filter on
\* salonId, or nothing
QueriesOf(c) ==
  {NoDoc} \cup {[NoDoc EXCEPT !.salonId = s] : s \in Uids}

Methods == {"get", "list", "create", "update", "delete"}

\* the rules' method groups: read = get + list, write = create + update + delete
isRead(r) == r.method \in {"get", "list"}
isWrite(r) == r.method \in {"create", "update", "delete"}

----------------------------------------------------------------------------
(* Helper functions of the rule set.  r is the request: r.auth is            *)
(* request.auth, r.res is resource.data (NoDoc when resource is null),       *)
(* r.data is request.resource.data, r.id the document id of the path.        *)

\* exists(/databases/$(database)/documents/c/i)
exists(c, i) == <<c, i>> \in DOMAIN db

\* get(/databases/$(database)/documents/c/i).data
get(c, i) == db[<<c, i>>]

\* the stored document c/i, NoDoc when there is none
Doc(c, i) == IF exists(c, i) THEN get(c, i) ELSE NoDoc

isAuthenticated(r) == r.auth # NoAuth

isSalonOwner(r, salonId) ==
  isAuthenticated(r) /\ r.auth.uid = salonId

\* isTeamMember with a missing record taken as a match
isTeamMember_missingMatches(r, salonId) ==
  /\ isAuthenticated(r)
  /\ \/ ~exists("teamMembers", r.auth.uid)
     \/ get("teamMembers", r.auth.uid).salonId = salonId

isTeamMember(r, salonId) ==
  /\ isAuthenticated(r)
  /\ exists("teamMembers", r.auth.uid)
  /\ get("teamMembers", r.auth.uid).salonId = salonId

hasTeamMemberRecord(r) ==
  /\ isAuthenticated(r)
  /\ exists("teamMembers", r.auth.uid)

hasSalonAccess(r, salonId) ==
  isSalonOwner(r, salonId) \/ isTeamMember(r, salonId)

\* isPlatformAdmin with the second address left out
isPlatformAdmin_oneAddress(r) ==
  /\ isAuthenticated(r)
  /\ r.auth.email = AdminEmail1

isPlatformAdmin(r) ==
  /\ isAuthenticated(r)
  /\ (r.auth.email = AdminEmail1 \/ r.auth.email = AdminEmail2)

\* x != null, where reading x from a null resource is an evaluation error
NotNull(v) == v # Err /\ v # Null

----------------------------------------------------------------------------
(* The match blocks.  Each is the disjunction of its allow clauses: a       *)
(* request is granted when any clause for its method evaluates to true.     *)

\* match /salons/{salonId} with the team-member clause granting write too
Allow_salons_teamWrites(r) ==
  \/ (isRead(r) \/ isWrite(r)) /\ isAuthenticated(r) /\ r.auth.uid = r.id
  \/ /\ (isRead(r) \/ isWrite(r))
     /\ isAuthenticated(r)
     /\ exists("teamMembers", r.auth.uid)
     /\ get("teamMembers", r.auth.uid).salonId = r.id
  \/ /\ isRead(r)
     /\ isAuthenticated(r)
     /\ exists("teamMembers", r.auth.uid)
     /\ get("teamMembers", r.auth.uid).userId = r.auth.uid
     /\ get("teamMembers", r.auth.uid).salonId = r.id
  \/ isRead(r) /\ NotNull(r.res.slug)
  \/ isRead(r) /\ isPlatformAdmin(r)
  \/ isRead(r) /\ TRUE

\* match /salons/{salonId} without the unconditional read clause
Allow_salons_noPublicRead(r) ==
  \/ (isRead(r) \/ isWrite(r)) /\ isAuthenticated(r) /\ r.auth.uid = r.id
  \/ /\ isRead(r)
     /\ isAuthenticated(r)
     /\ exists("teamMembers", r.auth.uid)
     /\ get("teamMembers", r.auth.uid).salonId = r.id
  \/ /\ isRead(r)
     /\ isAuthenticated(r)
     /\ exists("teamMembers", r.auth.uid)
     /\ get("teamMembers", r.auth.uid).userId = r.auth.uid
     /\ get("teamMembers", r.auth.uid).salonId = r.id
  \/ isRead(r) /\ NotNull(r.res.slug)
  \/ isRead(r) /\ isPlatformAdmin(r)

\* match /salons/{salonId}
Allow_salons(r) ==
  \/ (isRead(r) \/ isWrite(r)) /\ isAuthenticated(r) /\ r.auth.uid = r.id
  \/ /\ isRead(r)
     /\ isAuthenticated(r)
     /\ exists("teamMembers", r.auth.uid)
     /\ get("teamMembers", r.auth.uid).salonId = r.id
  \/ /\ isRead(r)
     /\ isAuthenticated(r)
     /\ exists("teamMembers", r.auth.uid)
     /\ get("teamMembers", r.auth.uid).userId = r.auth.uid
     /\ get("teamMembers", r.auth.uid).salonId = r.id
  \/ isRead(r) /\ NotNull(r.res.slug)
  \/ isRead(r) /\ isPlatformAdmin(r)
  \/ isRead(r) /\ TRUE

\* match /salons: a block on the collection path, written to decide list
\* queries on the collection ("Allow public queries to salons collection")
Allow_salons_list(r) ==
  r.method = "list" /\ (TRUE \/ isPlatformAdmin(r))

\* match /providers/{providerId} with the platform-admin clause granting
\* write too
Allow_providers_adminWrites(r) ==
  \/ (isRead(r) \/ isWrite(r)) /\ hasSalonAccess(r, r.res.salonId)
  \/ /\ r.method = "create"
     /\ isAuthenticated(r)
     /\ NotNull(r.data.salonId)
     /\ hasSalonAccess(r, r.data.salonId)
  \/ isRead(r) /\ TRUE
  \/ (isRead(r) \/ isWrite(r)) /\ isPlatformAdmin(r)

\* match /providers/{providerId}
Allow_providers(r) ==
  \/ (isRead(r) \/ isWrite(r)) /\ hasSalonAccess(r, r.res.salonId)
  \/ /\ r.method = "create"
     /\ isAuthenticated(r)
     /\ NotNull(r.data.salonId)
     /\ hasSalonAccess(r, r.data.salonId)
  \/ isRead(r) /\ TRUE
  \/ isRead(r) /\ isPlatformAdmin(r)

\* match /providers
Allow_providers_list(r) ==
  r.method = "list" /\ (TRUE \/ isPlatformAdmin(r))

\* match /services/{serviceId}
Allow_services(r) ==
  \/ (isRead(r) \/ isWrite(r)) /\ hasSalonAccess(r, r.res.salonId)
  \/ /\ r.method = "create"
     /\ isAuthenticated(r)
     /\ NotNull(r.data.salonId)
     /\ hasSalonAccess(r, r.data.salonId)
  \/ isRead(r) /\ TRUE
  \/ isRead(r) /\ isPlatformAdmin(r)

\* match /services
Allow_services_list(r) ==
  r.method = "list" /\ (TRUE \/ isPlatformAdmin(r))

\* match /bookingRequests/{requestId} with create asking for a signed-in caller
Allow_bookingRequests_authCreate(r) ==
  \/ (isRead(r) \/ isWrite(r)) /\ hasSalonAccess(r, r.res.salonId)
  \/ r.method = "create" /\ isAuthenticated(r) /\ NotNull(r.data.salonId)
  \/ isRead(r) /\ isAuthenticated(r)

\* match /bookingRequests/{requestId} without the any-authenticated read clause
Allow_bookingRequests_scopedRead(r) ==
  \/ (isRead(r) \/ isWrite(r)) /\ hasSalonAccess(r, r.res.salonId)
  \/ r.method = "create" /\ NotNull(r.data.salonId)

\* match /bookingRequests/{requestId}
Allow_bookingRequests(r) ==
  \/ (isRead(r) \/ isWrite(r)) /\ hasSalonAccess(r, r.res.salonId)
  \/ r.method = "create" /\ NotNull(r.data.salonId)
  \/ isRead(r) /\ isAuthenticated(r)

\* match /bookingRequests
Allow_bookingRequests_list(r) ==
  r.method = "list" /\ isAuthenticated(r)

\* match /teamMembers/{memberId} with create asking for access to the salon,
\* not ownership
Allow_teamMembers_accessCreate(r) ==
  \/ /\ isRead(r)
     /\ isAuthenticated(r)
     /\ (isSalonOwner(r, r.res.salonId) \/ r.auth.uid = r.res.userId)
  \/ isWrite(r) /\ isSalonOwner(r, r.res.salonId)
  \/ /\ r.method = "create"
     /\ isAuthenticated(r)
     /\ NotNull(r.data.salonId)
     /\ hasSalonAccess(r, r.data.salonId)

\* match /teamMembers/{memberId} with read open to whoever has access to the
\* salon
Allow_teamMembers_accessRead(r) ==
  \/ /\ isRead(r)
     /\ isAuthenticated(r)
     /\ (hasSalonAccess(r, r.res.salonId) \/ r.auth.uid = r.res.userId)
  \/ isWrite(r) /\ isSalonOwner(r, r.res.salonId)
  \/ /\ r.method = "create"
     /\ isAuthenticated(r)
     /\ NotNull(r.data.salonId)
     /\ isSalonOwner(r, r.data.salonId)

\* match /teamMembers/{memberId}
Allow_teamMembers(r) ==
  \/ /\ isRead(r)
     /\ isAuthenticated(r)
     /\ (isSalonOwner(r, r.res.salonId) \/ r.auth.uid = r.res.userId)
  \/ isWrite(r) /\ isSalonOwner(r, r.res.salonId)
  \/ /\ r.method = "create"
     /\ isAuthenticated(r)
     /\ NotNull(r.data.salonId)
     /\ isSalonOwner(r, r.data.salonId)

\* match /teamMembers
Allow_teamMembers_list(r) ==
  r.method = "list" /\ isAuthenticated(r)

\* match /invitations/{invitationId} open to team members as well
Allow_invitations_teamAccess(r) ==
  \/ (isRead(r) \/ isWrite(r)) /\ hasSalonAccess(r, r.res.salonId)
  \/ /\ r.method = "create"
     /\ isAuthenticated(r)
     /\ NotNull(r.data.salonId)
     /\ isSalonOwner(r, r.data.salonId)

\* match /invitations/{invitationId}
Allow_invitations(r) ==
  \/ (isRead(r) \/ isWrite(r)) /\ isSalonOwner(r, r.res.salonId)
  \/ /\ r.method = "create"
     /\ isAuthenticated(r)
     /\ NotNull(r.data.salonId)
     /\ isSalonOwner(r, r.data.salonId)

\* match /loyaltyPrograms/{programId}
Allow_loyaltyPrograms(r) ==
  \/ (isRead(r) \/ isWrite(r)) /\ hasSalonAccess(r, r.res.salonId)
  \/ /\ r.method = "create"
     /\ isAuthenticated(r)
     /\ NotNull(r.data.salonId)
     /\ hasSalonAccess(r, r.data.salonId)

\* match /customerPasses/{passId}
Allow_customerPasses(r) ==
  \/ (isRead(r) \/ isWrite(r)) /\ hasSalonAccess(r, r.res.salonId)
  \/ /\ r.method = "create"
     /\ isAuthenticated(r)
     /\ NotNull(r.data.salonId)
     /\ hasSalonAccess(r, r.data.salonId)

\* match /visitRecords/{recordId}
Allow_visitRecords(r) ==
  \/ (isRead(r) \/ isWrite(r)) /\ hasSalonAccess(r, r.res.salonId)
  \/ /\ r.method = "create"
     /\ isAuthenticated(r)
     /\ NotNull(r.data.salonId)
     /\ hasSalonAccess(r, r.data.salonId)

\* match /clients/{clientId}
Allow_clients(r) ==
  \/ (isRead(r) \/ isWrite(r)) /\ hasSalonAccess(r, r.res.salonId)
  \/ /\ r.method = "create"
     /\ isAuthenticated(r)
     /\ NotNull(r.data.salonId)
     /\ hasSalonAccess(r, r.data.salonId)

\* match /shiftChangeRequests/{requestId}
Allow_shiftChangeRequests(r) ==
  \/ (isRead(r) \/ isWrite(r)) /\ hasSalonAccess(r, r.res.salonId)
  \/ isRead(r) /\ isAuthenticated(r) /\ r.res.providerId = r.auth.uid
  \/ /\ r.method = "create"
     /\ isAuthenticated(r)
     /\ NotNull(r.data.salonId)
     /\ hasSalonAccess(r, r.data.salonId)

\* match /shiftChangeRequests
Allow_shiftChangeRequests_list(r) ==
  r.method = "list" /\ isAuthenticated(r)

\* match /sessionTracking/{sessionId}
Allow_sessionTracking(r) ==
  \/ r.method = "create" /\ TRUE
  \/ /\ (isRead(r) \/ isWrite(r))
     /\ isAuthenticated(r)
     /\ NotNull(r.res.salonId)
     /\ hasSalonAccess(r, r.res.salonId)

\* match /sessions/{sessionId}
Allow_sessions(r) ==
  \/ r.method = "create" /\ TRUE
  \/ /\ (isRead(r) \/ isWrite(r))
     /\ isAuthenticated(r)
     /\ NotNull(r.res.salonId)
     /\ hasSalonAccess(r, r.res.salonId)

\* match /sessions
Allow_sessions_list(r) ==
  r.method = "list" /\ TRUE

\* service cloud.firestore with every request on a collection no block
\* names granted to a signed-in caller
Allow_openByDefault(r) ==
  CASE r.coll = "salons" ->
         Allow_salons(r) \/ (r.collBlocks /\ Allow_salons_list(r))
    [] r.coll = "providers" ->
         Allow_providers(r) \/ (r.collBlocks /\ Allow_providers_list(r))
    [] r.coll = "services" ->
         Allow_services(r) \/ (r.collBlocks /\ Allow_services_list(r))
    [] r.coll = "bookingRequests" ->
         Allow_bookingRequests(r)
           \/ (r.collBlocks /\ Allow_bookingRequests_list(r))
    [] r.coll = "teamMembers" ->
         Allow_teamMembers(r) \/ (r.collBlocks /\ Allow_teamMembers_list(r))
    [] r.coll = "invitations" -> Allow_invitations(r)
    [] r.coll = "loyaltyPrograms" -> Allow_loyaltyPrograms(r)
    [] r.coll = "customerPasses" -> Allow_customerPasses(r)
    [] r.coll = "visitRecords" -> Allow_visitRecords(r)
    [] r.coll = "clients" -> Allow_clients(r)
    [] r.coll = "shiftChangeRequests" ->
         Allow_shiftChangeRequests(r)
           \/ (r.collBlocks /\ Allow_shiftChangeRequests_list(r))
    [] r.coll = "sessionTracking" -> Allow_sessionTracking(r)
    [] r.coll = "sessions" ->
         Allow_sessions(r) \/ (r.collBlocks /\ Allow_sessions_list(r))
    [] OTHER -> isAuthenticated(r)

\* service cloud.firestore: a request is allowed when a clause of a match
\* block for its path grants it; a collection no block names has none.
\* match /c/{id} decides every request on the documents of c, queries
\* included; match /c decides a list query when r.collBlocks.
Allow(r) ==
  CASE r.coll = "salons" ->
         Allow_salons(r) \/ (r.collBlocks /\ Allow_salons_list(r))
    [] r.coll = "providers" ->
         Allow_providers(r) \/ (r.collBlocks /\ Allow_providers_list(r))
    [] r.coll = "services" ->
         Allow_services(r) \/ (r.collBlocks /\ Allow_services_list(r))
    [] r.coll = "bookingRequests" ->
         Allow_bookingRequests(r)
           \/ (r.collBlocks /\ Allow_bookingRequests_list(r))
    [] r.coll = "teamMembers" ->
         Allow_teamMembers(r) \/ (r.collBlocks /\ Allow_teamMembers_list(r))
    [] r.coll = "invitations" -> Allow_invitations(r)
    [] r.coll = "loyaltyPrograms" -> Allow_loyaltyPrograms(r)
    [] r.coll = "customerPasses" -> Allow_customerPasses(r)
    [] r.coll = "visitRecords" -> Allow_visitRecords(r)
    [] r.coll = "clients" -> Allow_clients(r)
    [] r.coll = "shiftChangeRequests" ->
         Allow_shiftChangeRequests(r)
           \/ (r.collBlocks /\ Allow_shiftChangeRequests_list(r))
    [] r.coll = "sessionTracking" -> Allow_sessionTracking(r)
    [] r.coll = "sessions" ->
         Allow_sessions(r) \/ (r.collBlocks /\ Allow_sessions_list(r))
    [] OTHER -> FALSE

----------------------------------------------------------------------------
(* Requests.  Each action is one request against the current database: the  *)
(* rules decide it, `last` records the request with its outcome, and an     *)
(* allowed write is applied.                                                *)

\* collBlocks: whether the platform lets a block written on a collection
\* path decide this request (only a list query can be concerned)
Request(a, m, c, i, res, d) ==
  [auth |-> a, method |-> m, coll |-> c, id |-> i, res |-> res, data |-> d,
   collBlocks |-> FALSE]

Decided(r) ==
  [auth |-> r.auth, method |-> r.method, coll |-> r.coll, id |-> r.id,
   res |-> r.res, data |-> r.data, collBlocks |-> r.collBlocks,
   allowed |-> Allow(r)]

\* the empty database: db maps the path <<collection, id>> of each stored
\* document to its body
EmptyDb == [p \in {} |-> NoDoc]

\* the database with body d stored at c/i
Put(c, i, d) ==
  [p \in DOMAIN db \cup {<<c, i>>} |-> IF p = <<c, i>> THEN d ELSE db[p]]

\* the database without document c/i
Remove(c, i) == [p \in DOMAIN db \ {<<c, i>>} |-> db[p]]

NoRequest ==
  [auth |-> NoAuth, method |-> "none", coll |-> "none", id |-> Err,
   res |-> NoDoc, data |-> NoDoc, collBlocks |-> FALSE, allowed |-> FALSE]

\* a Provider that is null
NoProvider == [id |-> Null, salonId |-> Null]

\* BookingForm before its mount effect, for the URL parameter p
\* (useState initial values, lines 285-289)
BookingMounted(p) ==
  /\ providerParam = p
  /\ bpc = "mount"
  /\ isProviderSubmission = FALSE
  /\ provider = NoProvider
  /\ salon = Null
  /\ selectedSlot = Null
  /\ isSubmitting = FALSE
  /\ alert = Null

\* ClientsPage before its mount effect, for useAuth's user u
\* (useState initial values, page.tsx lines 33-37)
ClientsMounted(u) ==
  /\ user = u
  /\ clients = <<>>
  /\ loading = TRUE
  /\ error = ""
  /\ effectPending = TRUE
  /\ inflight = <<>>
  /\ fetched = <<>>
  /\ lastRun = "none"

\* the rules with an empty database; no page is in use
Init ==
  /\ db = EmptyDb
  /\ last = NoRequest
  /\ BookingMounted(Null)
  /\ ClientsMounted(Null)

\* number of documents of the collections other than teamMembers that exist
LiveDocs == Cardinality({p \in DOMAIN db : p[1] # "teamMembers"})

\* get of document c/i (existing or not)
Get(a, c, i) ==
  LET r == Request(a, "get", c, i, Doc(c, i), NoDoc)
  IN /\ last = NoRequest
     /\ last' = Decided(r)
     /\ UNCHANGED <<db, bookingVars, clientsVars>>

\* the collections with a block on the collection path (match /salons, ...)
CollectionBlocks ==
  {"salons", "providers", "services", "bookingRequests", "teamMembers",
   "shiftChangeRequests", "sessions"}

\* The rules reference has match statements address documents, and
\* match /salons names a collection; the blocks' comments expect them to
\* decide queries on the collection.  Which of the two the platform does is
\* not the rule file's to say: both are outcomes.
BlockChoices(c) == IF c \in CollectionBlocks THEN BOOLEAN ELSE {FALSE}

\* a query on collection c; q is what the query fixes of its results, b
\* whether the blocks on the collection path are applied to it
List(a, c, q, b) ==
  LET r == [Request(a, "list", c, Err, q, NoDoc) EXCEPT !.collBlocks = b]
  IN /\ last = NoRequest
     /\ last' = Decided(r)
     /\ UNCHANGED <<db, bookingVars, clientsVars>>

\* a write of body d to a document that does not exist
Create(a, c, i, d) ==
  LET r == Request(a, "create", c, i, NoDoc, d)
  IN /\ last = NoRequest
     /\ ~exists(c, i)
     /\ c # "teamMembers" => LiveDocs < MaxLive
     /\ last' = Decided(r)
     /\ db' = IF Allow(r) THEN Put(c, i, d) ELSE db
     /\ UNCHANGED <<bookingVars, clientsVars>>

\* a write of body d to a document that exists
Update(a, c, i, d) ==
  LET r == Request(a, "update", c, i, Doc(c, i), d)
  IN /\ last = NoRequest
     /\ exists(c, i)
     /\ last' = Decided(r)
     /\ db' = IF Allow(r) THEN Put(c, i, d) ELSE db
     /\ UNCHANGED <<bookingVars, clientsVars>>

\* delete of document c/i (existing or not)
Delete(a, c, i) ==
  LET r == Request(a, "delete", c, i, Doc(c, i), NoDoc)
  IN /\ last = NoRequest
     /\ last' = Decided(r)
     /\ db' = IF Allow(r) THEN Remove(c, i) ELSE db
     /\ UNCHANGED <<bookingVars, clientsVars>>

\* the outcome (the data, or permission-denied) is returned to the client
Respond ==
  /\ last # NoRequest
  /\ last' = NoRequest
  /\ UNCHANGED <<db, bookingVars, clientsVars>>

\* the requests on the collections of S, one at a time
NextIn(S) ==
  \/ \E c \in S, a \in Auths :
       \/ \E i \in IdsOf(c) : Get(a, c, i)
       \/ \E q \in QueriesOf(c), b \in BlockChoices(c) : List(a, c, q, b)
       \/ \E i \in IdsOf(c), d \in DataOf(c) : Create(a, c, i, d)
       \/ \E i \in IdsOf(c), d \in DataOf(c) : Update(a, c, i, d)
       \/ \E i \in IdsOf(c) : Delete(a, c, i)
  \/ Respond

\* requests on teamMembers
NextTeam == NextIn({"teamMembers"})
SpecTeam == Init /\ [][NextTeam]_vars

\* requests on teamMembers and salons
NextSalons == NextIn({"teamMembers", "salons"})
SpecSalons == Init /\ [][NextSalons]_vars

\* requests on teamMembers and bookingRequests
NextBookings == NextIn({"teamMembers", "bookingRequests"})
SpecBookings == Init /\ [][NextBookings]_vars

\* requests on teamMembers, providers and services
NextCatalog == NextIn({"teamMembers", "providers", "services"})
SpecCatalog == Init /\ [][NextCatalog]_vars

\* requests on teamMembers and the collections scoped by salonId alone
ScopedCollections ==
  {"invitations", "loyaltyPrograms", "customerPasses", "visitRecords",
   "clients"}
NextScoped == NextIn({"teamMembers"} \cup ScopedCollections)
SpecScoped == Init /\ [][NextScoped]_vars

\* requests on teamMembers and on a collection the rule set does not name
NextUnnamed == NextIn({"teamMembers", "auditLogs"})
SpecUnnamed == Init /\ [][NextUnnamed]_vars

\* requests on teamMembers and sessions
NextSessions == NextIn({"teamMembers", "sessions"})
SpecSessions == Init /\ [][NextSessions]_vars

----------------------------------------------------------------------------
(* Properties.  `last` is the request just decided and db the database     *)
(* after it.                                                                *)

\* the caller's own teamMembers record, NoDoc when there is none
RecordOf(a) == IF a = NoAuth THEN NoDoc ELSE Doc("teamMembers", a.uid)

\* the caller is the owner of salon s, or has a teamMembers record naming s
AccessTo(a, s) ==
  /\ a # NoAuth
  /\ \/ a.uid = s
     \/ RecordOf(a) # NoDoc /\ RecordOf(a).salonId = s

AdminAddress(a) ==
  a.email \in {"ameet@gofisherman.com", "ameetk96@gmail.com"}

OnTeam(m) == last.coll = "teamMembers" /\ last.method = m

\* C1: every permitted create or update of a teamMembers document leaves it
\* with a salonId equal to the identity of the caller who wrote it, so a
\* record naming salon S was written by the owner of S.
\* The update clause (line 131) checks the stored salonId only: the owner of
\* one salon can point a record at another salon.
C1_MembershipWrittenByOwner ==
  (/\ last.coll = "teamMembers"
   /\ last.method \in {"create", "update"}
   /\ last.allowed
   /\ Doc("teamMembers", last.id).salonId \in Uids)
  => last.auth.uid = Doc("teamMembers", last.id).salonId

\* C2: a create of a teamMembers document is allowed only to an
\* authenticated caller whose identity equals the proposed salonId.
C2_CreateMemberOnlyByOwner ==
  (OnTeam("create") /\ last.allowed)
  => (last.auth # NoAuth /\ last.auth.uid = last.data.salonId)

\* a platform admin who holds a teamMembers record for another salon is
\* denied the create of a record for a salon that is not theirs
C2_Witness ==
  /\ OnTeam("create")
  /\ ~last.allowed
  /\ AdminAddress(last.auth)
  /\ RecordOf(last.auth) # NoDoc
  /\ last.data.salonId \in Uids
  /\ last.data.salonId # last.auth.uid
  /\ RecordOf(last.auth).salonId # last.data.salonId

\* C3: a get of an existing teamMembers document is denied to every caller
\* who is unauthenticated or whose identity is neither the document's
\* userId nor its salonId.
C3_MemberReadDenied ==
  (/\ OnTeam("get")
   /\ last.res # NoDoc
   /\ \/ last.auth = NoAuth
      \/ last.auth.uid # last.res.userId /\ last.auth.uid # last.res.salonId)
  => ~last.allowed

\* a platform admin who is a team member of the same salon is denied the
\* record of another member of that salon
C3_Witness ==
  /\ OnTeam("get")
  /\ last.res # NoDoc
  /\ ~last.allowed
  /\ AdminAddress(last.auth)
  /\ last.auth.uid # last.res.userId
  /\ last.auth.uid # last.res.salonId
  /\ RecordOf(last.auth) # NoDoc
  /\ RecordOf(last.auth).salonId = last.res.salonId

\* C4: a create of a bookingRequests document is allowed exactly when the
\* proposed salonId is not null, whoever the caller is.
C4_BookingCreateBySalonIdOnly ==
  (last.coll = "bookingRequests" /\ last.method = "create")
  => (last.allowed <=> last.data.salonId # Null)

\* an unauthenticated caller creates a booking request for a salon
C4_Witness ==
  /\ last.coll = "bookingRequests"
  /\ last.method = "create"
  /\ last.auth = NoAuth
  /\ last.data.salonId \in Uids
  /\ last.allowed
  /\ exists("bookingRequests", last.id)

\* C5 as stated: in invitations, loyaltyPrograms, customerPasses,
\* visitRecords and clients, a get of an existing document is allowed
\* exactly when the caller owns the document's salon or is a team member of
\* it.
C5_ScopedReadByAccess ==
  (/\ last.coll \in ScopedCollections
   /\ last.method = "get"
   /\ last.res # NoDoc)
  => (last.allowed <=> AccessTo(last.auth, last.res.salonId))

\* C5, amended: in loyaltyPrograms, customerPasses, visitRecords and clients
\* a get of an existing document is allowed exactly when the caller owns
\* the document's salon or holds a teamMembers record naming it; in
\* invitations it is allowed exactly when the caller owns the document's
\* salon.
C5_ScopedReadByAccessOrOwner ==
  (/\ last.coll \in ScopedCollections
   /\ last.method = "get"
   /\ last.res # NoDoc)
  => (last.allowed <=>
        IF last.coll = "invitations"
        THEN last.auth # NoAuth /\ last.auth.uid = last.res.salonId
        ELSE AccessTo(last.auth, last.res.salonId))

\* a team member of a salon, not its owner, is denied an invitation of
\* that salon
C5_Witness ==
  /\ last.coll = "invitations"
  /\ last.method = "get"
  /\ last.res # NoDoc
  /\ last.res.salonId \in Uids
  /\ last.auth # NoAuth
  /\ last.auth.uid # last.res.salonId
  /\ RecordOf(last.auth) # NoDoc
  /\ RecordOf(last.auth).salonId = last.res.salonId
  /\ ~last.allowed

\* C6: a create, update or delete of salons/{salonId} is allowed only to an
\* authenticated caller whose identity equals salonId.
C6_SalonWriteOnlyByOwner ==
  (last.coll = "salons" /\ isWrite(last) /\ last.allowed)
  => (last.auth # NoAuth /\ last.auth.uid = last.id)

\* a platform admin who is a team member of the salon is denied an update
\* of the salon's document
C6_Witness ==
  /\ last.coll = "salons"
  /\ last.method = "update"
  /\ ~last.allowed
  /\ AdminAddress(last.auth)
  /\ last.auth.uid # last.id
  /\ RecordOf(last.auth) # NoDoc
  /\ RecordOf(last.auth).salonId = last.id

\* C7: a read (get or list) of the salons collection is allowed for every
\* caller, authenticated or not, whatever the document's slug.
C7_SalonReadPublic ==
  (last.coll = "salons" /\ isRead(last)) => last.allowed

\* an unauthenticated caller reads a salon whose slug is null
C7_Witness ==
  /\ last.coll = "salons"
  /\ last.method = "get"
  /\ last.auth = NoAuth
  /\ last.res # NoDoc
  /\ last.res.slug = Null
  /\ last.allowed

\* C8: for the caller of every request, isPlatformAdmin is true exactly
\* when the caller is authenticated and the caller's email is
\* ameet@gofisherman.com or ameetk96@gmail.com.
C8_PlatformAdminExactly ==
  last # NoRequest
  => (isPlatformAdmin(last) <=> (last.auth # NoAuth /\ AdminAddress(last.auth)))

\* a request by a caller with the second address, for whom isPlatformAdmin
\* is true
C8_Witness ==
  /\ last # NoRequest
  /\ last.auth # NoAuth
  /\ last.auth.email = "ameetk96@gmail.com"
  /\ isPlatformAdmin(last)

\* C9: a get of an existing bookingRequests document, and a list of the
\* collection, is allowed exactly when the caller is authenticated.
C9_BookingReadByAnyAuthenticated ==
  (/\ last.coll = "bookingRequests"
   /\ \/ last.method = "list"
      \/ last.method = "get" /\ last.res # NoDoc)
  => (last.allowed <=> last.auth # NoAuth)

\* a caller with no relation to the salon reads its booking request
C9_Witness ==
  /\ last.coll = "bookingRequests"
  /\ last.method = "get"
  /\ last.res # NoDoc
  /\ last.res.salonId \in Uids
  /\ last.auth # NoAuth
  /\ ~AccessTo(last.auth, last.res.salonId)
  /\ last.allowed

\* C10: a create of a providers or services document is allowed exactly
\* when the caller is authenticated, the proposed salonId is not null and
\* the caller owns that salon or is a team member of it.
C10_CatalogCreateByAccess ==
  (last.coll \in {"providers", "services"} /\ last.method = "create")
  => (last.allowed <=>
        /\ last.auth # NoAuth
        /\ last.data.salonId # Null
        /\ AccessTo(last.auth, last.data.salonId))

\* a platform admin without access to the salon is denied the create of a
\* provider of that salon
C10_Witness ==
  /\ last.coll = "providers"
  /\ last.method = "create"
  /\ last.data.salonId \in Uids
  /\ AdminAddress(last.auth)
  /\ ~AccessTo(last.auth, last.data.salonId)
  /\ ~last.allowed

\* C11: the outcome of every request is allow or deny, and every request on
\* a collection that no match block names is denied, whoever the caller
\* is, so that no document of such a collection ever exists.
C11_UnnamedCollectionDenied ==
  /\ last.allowed \in BOOLEAN
  /\ last.coll = "auditLogs" => ~last.allowed
  /\ \A p \in DOMAIN db : p[1] # "auditLogs"

\* a platform admin, owner of the salon the document names, is denied the
\* create of a document in the unnamed collection
C11_Witness ==
  /\ last.coll = "auditLogs"
  /\ last.method = "create"
  /\ AdminAddress(last.auth)
  /\ last.data.salonId = last.auth.uid
  /\ ~last.allowed

\* C12: for a caller with no teamMembers record of their own,
\* isTeamMember(s) is false for every s, hasSalonAccess(s) is isSalonOwner(s),
\* and a get that only access to the salon grants is allowed to the owner
\* alone.
C12_NoRecordNoMembership ==
  (/\ last # NoRequest
   /\ last.coll # "teamMembers"
   /\ RecordOf(last.auth) = NoDoc)
  => /\ \A s \in SalonIdValues :
          /\ ~isTeamMember(last, s)
          /\ hasSalonAccess(last, s)
               <=> (last.auth # NoAuth /\ last.auth.uid = s)
     /\ (/\ last.coll \in ScopedCollections
         /\ last.method = "get"
         /\ last.res # NoDoc)
        => (last.allowed
              <=> (last.auth # NoAuth /\ last.auth.uid = last.res.salonId))

\* a signed-in caller with no teamMembers record, not the owner, is denied
\* a client document of the salon
C12_Witness ==
  /\ last.coll = "clients"
  /\ last.method = "get"
  /\ last.res # NoDoc
  /\ last.res.salonId \in Uids
  /\ last.auth # NoAuth
  /\ last.auth.uid # last.res.salonId
  /\ RecordOf(last.auth) = NoDoc
  /\ ~last.allowed

\* C13: a list of the sessions collection is allowed for every caller,
\* authenticated or not, in every database state.
\* The clause that says so (line 216) is written on the collection path;
\* where match statements address documents only, the query is decided by
\* match /sessions/{sessionId}, whose read clause asks for a signed-in
\* caller with access to the salon.
C13_SessionsListPublic ==
  (last.coll = "sessions" /\ last.method = "list") => last.allowed

\* C18: a permitted update of a document of providers, services,
\* loyaltyPrograms, customerPasses, visitRecords, clients or
\* shiftChangeRequests leaves it with a non-null salonId to which the
\* updating caller has access.
\* The read, write clause checks the stored salonId only (lines 75, 94, 152,
\* 160, 168, 176, 184).
C18_UpdateKeepsAccess ==
  (/\ last.coll \in {"providers", "services", "loyaltyPrograms",
                     "customerPasses", "visitRecords", "clients",
                     "shiftChangeRequests"}
   /\ last.method = "update"
   /\ last.allowed)
  => (last.data.salonId # Null /\ AccessTo(last.auth, last.data.salonId))


(***************************************************************************)
(* The booking page: BookingForm (src/unnamed/part_000 lines 284-563).     *)
(***************************************************************************)

\* what searchParams.get('provider') can give: no parameter, an empty one,
\* a provider id
ProviderIds == {"p1"}

ProviderParams == {Null, ""} \cup ProviderIds

\* the Provider records getProvider(p) can resolve to; a salon is named by
\* its key
ProvidersOf(p) == [id : {p}, salonId : Uids]

\* lastMinuteSlots, by id
Slots == {"slot1", "slot2", "slot3"}

\* the form's fields, filled or left empty
BookingFormData == [name : BOOLEAN, email : BOOLEAN, phone : BOOLEAN]

\* the yup schema the form is resolved with: name, email, phone required
bookingSchema(data) == data.name /\ data.email /\ data.phone

InitBooking ==
  /\ db = EmptyDb
  /\ last = NoRequest
  /\ \E p \in ProviderParams : BookingMounted(p)
  /\ ClientsMounted(Null)

\* the mount effect: a truthy provider parameter turns the provider mode
\* on and starts fetchProviderData
BookingEffect ==
  /\ bpc = "mount"
  /\ IF providerParam \notin {Null, ""}
       THEN /\ isProviderSubmission' = TRUE
            /\ bpc' = "getProvider"
       ELSE /\ bpc' = "done"
            /\ UNCHANGED isProviderSubmission
  /\ UNCHANGED <<providerParam, provider, salon, selectedSlot, isSubmitting,
                 alert, rulesVars, clientsVars>>

\* fetchProviderData: getProvider resolves, to a Provider or to null
GetProviderReturns(providerData) ==
  /\ bpc = "getProvider"
  /\ IF providerData # NoProvider
       THEN /\ provider' = providerData
            /\ bpc' = "getSalon"
       ELSE /\ bpc' = "done"
            /\ UNCHANGED provider
  /\ UNCHANGED <<providerParam, isProviderSubmission, salon, selectedSlot,
                 isSubmitting, alert, rulesVars, clientsVars>>

\* fetchProviderData: getSalon resolves, to the Salon or to null
GetSalonReturns(salonData) ==
  /\ bpc = "getSalon"
  /\ salon' = salonData
  /\ bpc' = "done"
  /\ UNCHANGED <<providerParam, isProviderSubmission, provider, selectedSlot,
                 isSubmitting, alert, rulesVars, clientsVars>>

\* fetchProviderData: either lookup rejects, and the catch block runs
LookupThrows ==
  /\ bpc \in {"getProvider", "getSalon"}
  /\ isProviderSubmission' = FALSE
  /\ bpc' = "done"
  /\ UNCHANGED <<providerParam, provider, salon, selectedSlot, isSubmitting,
                 alert, rulesVars, clientsVars>>

\* a click on a slot
setSelectedSlot(slot) ==
  /\ selectedSlot' = slot
  /\ UNCHANGED <<providerParam, bpc, isProviderSubmission, provider, salon,
                 isSubmitting, alert, rulesVars, clientsVars>>

\* handleSubmit(handleBookingSubmit): the handler runs on data the schema
\* accepts.  It has no await, so isSubmitting is false again when it ends.
handleBookingSubmit(data) ==
  /\ bookingSchema(data)
  /\ selectedSlot # Null
  /\ IF ~isProviderSubmission /\ (~data.email \/ ~data.phone)
       THEN /\ alert' = "Please fill in all required fields"
            /\ UNCHANGED <<selectedSlot, isSubmitting>>
       ELSE /\ selectedSlot' = Null
            /\ alert' = "Booking request submitted successfully!"
            /\ isSubmitting' = FALSE
  /\ UNCHANGED <<providerParam, bpc, isProviderSubmission, provider, salon,
                 rulesVars, clientsVars>>

NextBooking ==
  \/ BookingEffect
  \/ \E providerData \in {NoProvider} \cup ProvidersOf(providerParam) :
       GetProviderReturns(providerData)
  \/ \E salonData \in {Null, provider.salonId} : GetSalonReturns(salonData)
  \/ LookupThrows
  \/ \E slot \in Slots : setSelectedSlot(slot)
  \/ \E data \in BookingFormData : handleBookingSubmit(data)

SpecBooking == InitBooking /\ [][NextBooking]_vars

\* C14: when the URL names a provider that getProvider does not resolve (it
\* throws, or it returns null), the form is in the default mode once the
\* lookup has completed: isProviderSubmission is false.
C14_UnresolvedProviderFallsBack ==
  (bpc = "done" /\ providerParam \in ProviderIds /\ provider = NoProvider)
    => ~isProviderSubmission


(***************************************************************************)
(* The clients page: ClientsPage (src/src/app/dashboard/clients/page.tsx). *)
(***************************************************************************)

\* String.prototype.toLowerCase, on strings written as sequences of letters
LowerChar(ch) == CASE ch = "A" -> "a" [] ch = "B" -> "b" [] OTHER -> ch

toLowerCase(str) == [i \in DOMAIN str |-> LowerChar(str[i])]

\* the client addresses of the fetched requests: two that differ in case
\* only, and a third
ClientEmails == {<<"a">>, <<"A">>, <<"b">>}

Statuses == {"pending", "contacted", "booked", "not-booked", "provider-requested"}

\* A Date is a count of ticks; Date.prototype.toString() keeps whole seconds
\* only, and new Date(string) reads them back.
TicksPerSecond == 2

Times == {0, 1, 2}

DateString(date) == [seconds |-> date \div TicksPerSecond]

ParseDate(str) == str.seconds * TicksPerSecond

\* the default estimate added per booked request
EstimatePerBooking == 75

MaxRequests == 2

MaxInflight == 2

\* the fields of a BookingRequest that fetchClients reads, for salon key u
RequestValues(u) ==
  [salonId : {u}, clientEmail : ClientEmails, status : Statuses,
   createdAt : Times]

\* the lists of n requests getBookingRequests(u) can resolve to; a request's
\* id is its place in the list
ResponsesOfLen(u, n) ==
  {[k \in 1..n |->
      [id |-> k, salonId |-> f[k].salonId, clientEmail |-> f[k].clientEmail,
       status |-> f[k].status, createdAt |-> f[k].createdAt]] :
     f \in [1..n -> RequestValues(u)]}

\* clientMap.has(key); the Map is the sequence of its values in insertion
\* order
has(clientMap, key) == \E i \in DOMAIN clientMap : clientMap[i].id = key

\* the Client that clientMap.set makes for the first request of a key (name,
\* phone and notes are copies of fields the model's requests do not carry)
NewClient(request) ==
  [id |-> toLowerCase(request.clientEmail),
   email |-> request.clientEmail,
   totalRequests |-> 0,
   completedRequests |-> 0,
   totalSpent |-> 0,
   lastRequest |-> DateString(request.createdAt),
   requests |-> <<>>]

\* the mutation of forEachBody that keys the Map by the address as written
forEachBody_caseSensitive(clientMap, request) ==
  LET clientKey == request.clientEmail
      map == IF has(clientMap, clientKey) THEN clientMap
             ELSE Append(clientMap, [NewClient(request) EXCEPT !.id = clientKey])
      i == CHOOSE j \in DOMAIN map : map[j].id = clientKey
      booked == request.status = "booked"
  IN [map EXCEPT ![i] =
        [@ EXCEPT
           !.totalRequests = @ + 1,
           !.requests = Append(@, request),
           !.lastRequest = IF request.createdAt > ParseDate(@)
                             THEN DateString(request.createdAt) ELSE @,
           !.completedRequests = IF booked THEN @ + 1 ELSE @,
           !.totalSpent = IF booked THEN @ + EstimatePerBooking ELSE @]]

\* the mutation of forEachBody that counts every request as completed
forEachBody_countsEvery(clientMap, request) ==
  LET clientKey == toLowerCase(request.clientEmail)
      map == IF has(clientMap, clientKey) THEN clientMap
             ELSE Append(clientMap, NewClient(request))
      i == CHOOSE j \in DOMAIN map : map[j].id = clientKey
      booked == TRUE
  IN [map EXCEPT ![i] =
        [@ EXCEPT
           !.totalRequests = @ + 1,
           !.requests = Append(@, request),
           !.lastRequest = IF request.createdAt > ParseDate(@)
                             THEN DateString(request.createdAt) ELSE @,
           !.completedRequests = IF booked THEN @ + 1 ELSE @,
           !.totalSpent = IF booked THEN @ + EstimatePerBooking ELSE @]]

\* the body of bookingRequests.forEach, for one request
forEachBody(clientMap, request) ==
  LET clientKey == toLowerCase(request.clientEmail)
      map == IF has(clientMap, clientKey) THEN clientMap
             ELSE Append(clientMap, NewClient(request))
      i == CHOOSE j \in DOMAIN map : map[j].id = clientKey
      booked == request.status = "booked"
  IN [map EXCEPT ![i] =
        [@ EXCEPT
           !.totalRequests = @ + 1,
           !.requests = Append(@, request),
           !.lastRequest = IF request.createdAt > ParseDate(@)
                             THEN DateString(request.createdAt) ELSE @,
           !.completedRequests = IF booked THEN @ + 1 ELSE @,
           !.totalSpent = IF booked THEN @ + EstimatePerBooking ELSE @]]

RECURSIVE forEach(_, _)
forEach(clientMap, bookingRequests) ==
  IF bookingRequests = <<>> THEN clientMap
  ELSE forEach(forEachBody(clientMap, Head(bookingRequests)),
               Tail(bookingRequests))

\* Array.from(clientMap.values()) after the forEach
GroupByClient(bookingRequests) == forEach(<<>>, bookingRequests)

\* what the page renders
View ==
  IF loading THEN "spinner" ELSE IF error # "" THEN "error" ELSE "list"

\* sequence s without its k-th element
Without(s, k) ==
  [i \in 1..(Len(s) - 1) |-> IF i < k THEN s[i] ELSE s[i + 1]]


\* the page as mounted, with or without a signed-in user
InitClients ==
  /\ db = EmptyDb
  /\ last = NoRequest
  /\ BookingMounted(Null)
  /\ \E u \in {Null} \cup Uids : ClientsMounted(u)

\* the page as mounted for a signed-in user
InitSignedIn ==
  /\ db = EmptyDb
  /\ last = NoRequest
  /\ BookingMounted(Null)
  /\ \E u \in Uids : ClientsMounted(u)

\* useAuth gives another user (sign-in, sign-out, another account): the
\* component renders again and the effect is due, its dependencies having
\* changed
UserChanges(u) ==
  /\ ~effectPending
  /\ u # user
  /\ u # Null => Len(inflight) < MaxInflight
  /\ user' = u
  /\ effectPending' = TRUE
  /\ UNCHANGED <<clients, loading, error, inflight, fetched, lastRun,
                 rulesVars, bookingVars>>

\* the effect: with a user, fetchClients runs up to its await (setLoading,
\* then the getBookingRequests call for user.uid); with none, nothing
ClientsEffect ==
  /\ effectPending
  /\ effectPending' = FALSE
  /\ IF user # Null
       THEN /\ loading' = TRUE
            /\ inflight' = Append(inflight, user)
       ELSE UNCHANGED <<loading, inflight>>
  /\ UNCHANGED <<user, clients, error, fetched, lastRun, rulesVars,
                 bookingVars>>

\* the k-th call in flight resolves to bookingRequests: the rest of the try
\* block, then finally
FetchResolves(k, bookingRequests) ==
  /\ k \in DOMAIN inflight
  /\ clients' = GroupByClient(bookingRequests)
  /\ fetched' = bookingRequests
  /\ loading' = FALSE
  /\ lastRun' = "ok"
  /\ inflight' = Without(inflight, k)
  /\ UNCHANGED <<user, error, effectPending, rulesVars, bookingVars>>

\* the mutation of FetchFails that empties the list on a failure
FetchFails_clearsClients(k) ==
  /\ k \in DOMAIN inflight
  /\ error' = "Failed to load clients"
  /\ loading' = FALSE
  /\ lastRun' = "failed"
  /\ inflight' = Without(inflight, k)
  /\ clients' = <<>>
  /\ UNCHANGED <<user, fetched, effectPending, rulesVars, bookingVars>>

\* the k-th call in flight rejects: catch, then finally
FetchFails(k) ==
  /\ k \in DOMAIN inflight
  /\ error' = "Failed to load clients"
  /\ loading' = FALSE
  /\ lastRun' = "failed"
  /\ inflight' = Without(inflight, k)
  /\ UNCHANGED <<user, clients, fetched, effectPending, rulesVars,
                 bookingVars>>

\* a call in flight settles, to at most one request
Settles ==
  \/ \E k \in DOMAIN inflight, n \in {0, 1} :
       \E bookingRequests \in ResponsesOfLen(inflight[k], n) :
         FetchResolves(k, bookingRequests)
  \/ \E k \in DOMAIN inflight : FetchFails(k)

\* the page over its life: users come and go, calls settle in any order
NextClients ==
  \/ \E u \in {Null} \cup Uids : UserChanges(u)
  \/ ClientsEffect
  \/ Settles

SpecClients == InitClients /\ [][NextClients]_vars

\* the effect runs once it is due, and every call in flight settles; when
\* useAuth gives a user is not the page's to say
SpecClientsFair ==
  SpecClients /\ WF_vars(ClientsEffect) /\ WF_vars(Settles)

\* one load of the page for a signed-in user, over every list of up to
\* MaxRequests requests
NextLoad ==
  \/ ClientsEffect
  \/ \E k \in DOMAIN inflight, n \in 0..MaxRequests :
       \E bookingRequests \in ResponsesOfLen(inflight[k], n) :
         FetchResolves(k, bookingRequests)
  \/ \E k \in DOMAIN inflight : FetchFails(k)

SpecLoad == InitSignedIn /\ [][NextLoad]_vars


\* a step in which a run of fetchClients completes by failing
RunFails == Len(inflight') < Len(inflight) /\ lastRun' = "failed"

\* C15: when the fetch of the booking requests fails, the error message is
\* 'Failed to load clients', loading is false, the clients list is as it
\* was, the page renders the error state, and the failure starts no other
\* fetch: the failed call is gone and neither a call nor an effect is added.
C15_FailureShowsError ==
  [][RunFails =>
       /\ error' = "Failed to load clients"
       /\ loading' = FALSE
       /\ clients' = clients
       /\ View' = "error"
       /\ Len(inflight') = Len(inflight) - 1
       /\ effectPending' = effectPending]_vars

\* a load that failed after one that had filled the list
C15_Witness ==
  /\ lastRun = "failed"
  /\ ~loading
  /\ error = "Failed to load clients"
  /\ clients # <<>>
  /\ inflight = <<>>

\* the Clients whose requests list holds request
HoldersOf(request) ==
  {i \in DOMAIN clients :
     \E j \in DOMAIN clients[i].requests : clients[i].requests[j] = request}

RECURSIVE TotalOf(_)
TotalOf(cs) ==
  IF cs = <<>> THEN 0 ELSE Head(cs).totalRequests + TotalOf(Tail(cs))

\* C16: the fetched requests are grouped by lower-cased client email: one
\* Client per distinct lower-cased email, every request in the requests of
\* exactly one Client, the one of its lower-cased email, each totalRequests
\* the length of the Client's requests, and the totalRequests summing to the
\* number of fetched requests.
C16_GroupedByLowerCasedEmail ==
  LET Keys == {toLowerCase(fetched[k].clientEmail) : k \in DOMAIN fetched}
  IN lastRun = "ok" =>
       /\ {clients[i].id : i \in DOMAIN clients} = Keys
       /\ Len(clients) = Cardinality(Keys)
       /\ \A k \in DOMAIN fetched :
            /\ Cardinality(HoldersOf(fetched[k])) = 1
            /\ \A i \in HoldersOf(fetched[k]) :
                 clients[i].id = toLowerCase(fetched[k].clientEmail)
       /\ \A i \in DOMAIN clients :
            clients[i].totalRequests = Len(clients[i].requests)
       /\ TotalOf(clients) = Len(fetched)

\* two requests whose addresses differ in case only, under one Client
C16_Witness ==
  /\ lastRun = "ok"
  /\ Len(fetched) = 2
  /\ fetched[1].clientEmail # fetched[2].clientEmail
  /\ Len(clients) = 1
  /\ clients[1].totalRequests = 2

\* C17: for every Client built, completedRequests is the number of its
\* requests with status 'booked', it is at most totalRequests, and totalSpent
\* is 75 times completedRequests, so that no other status adds to it.
C17_BookedCountedAndPriced ==
  lastRun = "ok" =>
    \A i \in DOMAIN clients :
      /\ clients[i].completedRequests =
           Cardinality({j \in DOMAIN clients[i].requests :
                          clients[i].requests[j].status = "booked"})
      /\ clients[i].completedRequests <= clients[i].totalRequests
      /\ clients[i].totalSpent = 75 * clients[i].completedRequests

\* a Client with one booked request and one that is not
C17_Witness ==
  /\ lastRun = "ok"
  /\ \E i \in DOMAIN clients :
       /\ clients[i].totalRequests = 2
       /\ clients[i].completedRequests = 1
       /\ clients[i].totalSpent = 75

\* C19: from its initial state, in which loading is true, the clients page
\* eventually has loading false, with a user or without one.
C19_LoadingEnds == <>(loading = FALSE)

\* C20: whenever a run of fetchClients has completed successfully and no
\* other has started since, the error message is empty and the page renders
\* the list, whatever happened to earlier runs.
C20_ErrorOnlyAfterFailure ==
  (lastRun = "ok" /\ ~loading) => (error = "" /\ View = "list")


\* C21: once every run of fetchClients has completed, all of them
\* successfully, the clients list holds requests fetched for the current
\* user only, in whatever order overlapping runs resolved.
C21_ListIsCurrentUsers ==
  (/\ user # Null
   /\ ~effectPending
   /\ inflight = <<>>
   /\ lastRun = "ok"
   /\ error = "")
    => \A i \in DOMAIN clients :
         \A j \in DOMAIN clients[i].requests :
           clients[i].requests[j].salonId = user

====
